---- MODULE Spec2Model ----
(***************************************************************************)
(* Model of the scanning engine of src/server.js (API Key Hunter).         *)
(*                                                                         *)
(* Text is modelled at character level: a JavaScript string is a sequence  *)
(* of one-character strings, a path is a sequence of names (each name a    *)
(* sequence of characters).  The regular expressions of the pattern        *)
(* catalog keep their real shapes and lengths.                             *)
(*                                                                         *)
(* One action is one turn of a request handler between two awaits on the   *)
(* outside world (fs.stat, fs.readdir, fs.readFile, axios.get); the code   *)
(* between two such awaits only touches the request's own objects.         *)
(***************************************************************************)
EXTENDS Integers, Sequences, FiniteSets, TLC

(***************************************************************************)
(* Characters and strings                                                  *)
(***************************************************************************)
LowerSeq ==
  <<"a","b","c","d","e","f","g","h","i","j","k","l","m",
    "n","o","p","q","r","s","t","u","v","w","x","y","z">>

UpperSeq ==
  <<"A","B","C","D","E","F","G","H","I","J","K","L","M",
    "N","O","P","Q","R","S","T","U","V","W","X","Y","Z">>

Range(f) == { f[i] : i \in DOMAIN f }

Lowers == Range(LowerSeq)

Uppers == Range(UpperSeq)

Digits == {"0","1","2","3","4","5","6","7","8","9"}

\* [a-zA-Z0-9]
Alnum == Lowers \cup Uppers \cup Digits

\* [0-9A-Za-z-_]
AlnumDashUnderscore == Alnum \cup {"-", "_"}

\* [a-f0-9]
HexLower == {"a","b","c","d","e","f"} \cup Digits

\* \s (the white space characters that occur in the modelled texts)
WhiteSpace == {" ", "\t", "\n", "\r"}

\* String.prototype.toLowerCase, one character
ToLowerChar(c) ==
  IF c \in Uppers
    THEN LowerSeq[CHOOSE i \in DOMAIN UpperSeq : UpperSeq[i] = c]
    ELSE c

\* String.prototype.toLowerCase
ToLowerCase(s) == [i \in DOMAIN s |-> ToLowerChar(s[i])]

\* a run of n copies of character c
Repeat(c, n) == [i \in 1..n |-> c]

\* String.prototype.startsWith
StartsWith(s, p) == Len(p) <= Len(s) /\ SubSeq(s, 1, Len(p)) = p

\* String.prototype.includes
Includes(s, m) ==
  \E k \in 0..(Len(s) - Len(m)) : SubSeq(s, k + 1, k + Len(m)) = m

\* index of the first occurrence of character c in s at or after i, 0 if none
RECURSIVE IndexOfChar(_, _, _)
IndexOfChar(s, c, i) ==
  IF i > Len(s) THEN 0
  ELSE IF s[i] = c THEN i
  ELSE IndexOfChar(s, c, i + 1)

\* String.prototype.split('\n')
RECURSIVE SplitLines(_)
SplitLines(s) ==
  LET k == IndexOfChar(s, "\n", 1)
  IN  IF k = 0 THEN <<s>>
      ELSE <<SubSeq(s, 1, k - 1)>> \o SplitLines(SubSeq(s, k + 1, Len(s)))

\* Array.prototype.join('\n')
RECURSIVE JoinLines(_)
JoinLines(parts) ==
  IF parts = <<>> THEN <<>>
  ELSE IF Len(parts) = 1 THEN parts[1]
  ELSE parts[1] \o <<"\n">> \o JoinLines(Tail(parts))

(***************************************************************************)
(* Regular expressions.  A regex is a list of alternatives; an alternative *)
(* is a list of atoms: a literal, a class repeated exactly n times, or a   *)
(* class repeated greedily (star).  In the catalog no star is followed by  *)
(* a character of its own class, so matching never backtracks.             *)
(***************************************************************************)
Lit(str) == [k |-> "lit", s |-> str, cls |-> {}, n |-> 0]

RepN(class, count) == [k |-> "rep", s |-> <<>>, cls |-> class, n |-> count]

Star(class) == [k |-> "star", s |-> <<>>, cls |-> class, n |-> 0]

Regex(alternatives, ignoreCase) == [alts |-> alternatives, ic |-> ignoreCase]

\* EqChar with the i flag of the regex dropped
EqCharCaseSensitive(c, d, ic) == c = d

EqChar(c, d, ic) == IF ic THEN ToLowerChar(c) = ToLowerChar(d) ELSE c = d

\* the first index at or after i whose character is not in class
RECURSIVE SkipClass(_, _, _)
SkipClass(s, i, class) ==
  IF i <= Len(s) /\ s[i] \in class THEN SkipClass(s, i + 1, class) ELSE i

\* atoms k.. of an alternative matched at position i of s: the index after
\* the match, 0 when there is none
RECURSIVE MatchAtoms(_, _, _, _, _)
MatchAtoms(atoms, k, s, i, ic) ==
  IF k > Len(atoms) THEN i
  ELSE LET a == atoms[k]
       IN CASE a.k = "lit" ->
                 IF /\ i + Len(a.s) - 1 <= Len(s)
                    /\ \A j \in 1..Len(a.s) : EqChar(s[i + j - 1], a.s[j], ic)
                   THEN MatchAtoms(atoms, k + 1, s, i + Len(a.s), ic)
                   ELSE 0
            [] a.k = "rep" ->
                 IF /\ i + a.n - 1 <= Len(s)
                    /\ \A j \in 1..a.n : s[i + j - 1] \in a.cls
                   THEN MatchAtoms(atoms, k + 1, s, i + a.n, ic)
                   ELSE 0
            [] a.k = "star" ->
                 MatchAtoms(atoms, k + 1, s, SkipClass(s, i, a.cls), ic)

\* the alternatives from the k-th on, tried in order at position i
RECURSIVE MatchAlts(_, _, _, _)
MatchAlts(re, k, s, i) ==
  IF k > Len(re.alts) THEN 0
  ELSE LET e == MatchAtoms(re.alts[k], 1, s, i, re.ic)
       IN  IF e # 0 THEN e ELSE MatchAlts(re, k + 1, s, i)

\* RegExp.prototype.exec from lastIndex i: the leftmost match at or after i
RECURSIVE Exec(_, _, _)
Exec(re, s, i) ==
  IF i > Len(s) THEN [start |-> 0, end |-> 0]
  ELSE LET e == MatchAlts(re, 1, s, i)
       IN  IF e # 0 THEN [start |-> i, end |-> e] ELSE Exec(re, s, i + 1)

RECURSIVE MatchFrom(_, _, _)
MatchFrom(re, s, i) ==
  LET m == Exec(re, s, i)
  IN  IF m.start = 0 THEN <<>>
      ELSE <<SubSeq(s, m.start, m.end - 1)>> \o MatchFrom(re, s, m.end)

\* String.prototype.match with a global regex: every match, left to right,
\* each search resuming where the previous match ended; <<>> stands for null
Match(s, re) == MatchFrom(re, s, 1)

(***************************************************************************)
(* Pattern catalog (module constants of server.js)                         *)
(***************************************************************************)
\* PATTERNS, in Object.entries order
PATTERNS ==
  << [service |-> "OpenAI",
      pattern |-> Regex(<< <<Lit(<<"s","k","-">>), RepN(Alnum, 48)>> >>, FALSE)],
     [service |-> "Anthropic",
      pattern |-> Regex(<< <<Lit(<<"s","k","-","a","n","t","-">>), RepN(Alnum, 32)>> >>, FALSE)],
     [service |-> "Cohere",
      pattern |-> Regex(<< <<RepN(Alnum, 40)>> >>, FALSE)],
     [service |-> "AI21",
      pattern |-> Regex(<< <<RepN(Alnum, 32)>> >>, FALSE)],
     [service |-> "Google AI",
      pattern |-> Regex(<< <<Lit(<<"A","I","z","a">>), RepN(AlnumDashUnderscore, 35)>> >>, FALSE)],
     [service |-> "Azure OpenAI",
      pattern |-> Regex(<< <<RepN(HexLower, 32)>> >>, FALSE)],
     [service |-> "Hugging Face",
      pattern |-> Regex(<< <<Lit(<<"h","f","_">>), RepN(Alnum, 34)>> >>, FALSE)] >>

SENSITIVE_FILES ==
  << <<".","e","n","v">>,
     <<"c","o","n","f","i","g",".","j","s","o","n">>,
     <<"s","e","t","t","i","n","g","s",".","j","s","o","n">>,
     <<"c","r","e","d","e","n","t","i","a","l","s",".","j","s","o","n">>,
     <<"s","e","c","r","e","t","s",".","j","s","o","n">> >>

SKIP_DIRS ==
  { <<"n","o","d","e","_","m","o","d","u","l","e","s">>,
    <<".","g","i","t">>,
    <<"d","i","s","t">>,
    <<"c","o","v","e","r","a","g","e">>,
    <<".","v","i","t","e","-","c","a","c","h","e">> }

SKIP_EXTS ==
  { <<".","j","p","g">>, <<".","p","n","g">>, <<".","g","i","f">>, <<".","p","d","f">>,
    <<".","z","i","p">>, <<".","s","v","g">>, <<".","i","c","o">>,
    <<".","w","o","f","f">>, <<".","w","o","f","f","2">>,
    <<".","t","t","f">>, <<".","e","o","t">> }

\* CODE_PATTERNS, in Object.entries order
CODE_PATTERNS ==
  << [pattern |-> "API Calls",
      regex |-> Regex(<< <<Lit(<<".","c","r","e","a","t","e","(">>)>>,
                         <<Lit(<<".","g","e","n","e","r","a","t","e","(">>)>>,
                         <<Lit(<<".","c","o","m","p","l","e","t","e","(">>)>>,
                         <<Lit(<<".","p","r","e","d","i","c","t","(">>)>> >>, FALSE)],
     [pattern |-> "Debug Mode",
      regex |-> Regex(<< <<Lit(<<"d","e","b","u","g",":">>), Star(WhiteSpace), Lit(<<"t","r","u","e">>)>>,
                         <<Lit(<<"D","E","B","U","G">>), Star(WhiteSpace), Lit(<<"=">>),
                           Star(WhiteSpace), Lit(<<"t","r","u","e">>)>> >>, TRUE)],
     [pattern |-> "Hardcoded Credentials",
      regex |-> Regex(<< <<Lit(<<"p","a","s","s","w","o","r","d">>)>>,
                         <<Lit(<<"s","e","c","r","e","t">>)>>,
                         <<Lit(<<"k","e","y">>)>>,
                         <<Lit(<<"t","o","k","e","n">>)>>,
                         <<Lit(<<"a","u","t","h">>)>> >>, TRUE)] >>

(***************************************************************************)
(* Paths (node:path).  A path is the sequence of its components.           *)
(***************************************************************************)
\* path.join(dir, name)
Join(dir, name) == Append(dir, name)

\* path.basename(filePath)
Basename(p) == p[Len(p)]

\* path.relative(from, to) for a path `to` below `from`, which is the only
\* way the scan calls it (every walked path is built from the target)
Relative(from, to) == SubSeq(to, Len(from) + 1, Len(to))

\* index of the last occurrence of character c in s, 0 if none
LastIndexOfChar(s, c) ==
  IF \E i \in DOMAIN s : s[i] = c
    THEN CHOOSE i \in DOMAIN s : s[i] = c /\ \A j \in (i + 1)..Len(s) : s[j] # c
    ELSE 0

\* path.extname(name): from the last dot on; empty when the name has no dot,
\* when its only dot is its first character, and for ".."
ExtName(name) ==
  LET d == LastIndexOfChar(name, ".")
  IN  IF d <= 1 \/ name = <<".",".">> THEN <<>> ELSE SubSeq(name, d, Len(name))

(***************************************************************************)
(* Line resolver                                                           *)
(***************************************************************************)
\* the loop of findLineNumber from line i on
RECURSIVE FirstLineWith(_, _, _)
FirstLineWith(lines, match, i) ==
  IF i > Len(lines) THEN 1
  ELSE IF Includes(lines[i], match) THEN i
  ELSE FirstLineWith(lines, match, i + 1)

\* findLineNumber returning the index i of the loop, not i + 1
findLineNumberZeroBased(content, match) ==
  FirstLineWith(SplitLines(content), match, 1) - 1

\* findLineNumber(content, match)
findLineNumber(content, match) == FirstLineWith(SplitLines(content), match, 1)

(***************************************************************************)
(* Finding extractor and aggregator                                        *)
(***************************************************************************)
\* a local that has not been assigned yet
Undefined == [undefined |-> TRUE]

\* the `line: null` of a sensitive-file finding
Null == [null |-> TRUE]

\* ApiKeyHits pushing one finding for every match instead of one for the first
ApiKeyHitsPerMatch(file, text, p) ==
  LET matches == Match(text, p.pattern)
  IN  [i \in DOMAIN matches |->
         [file |-> file, service |-> p.service,
          line |-> findLineNumber(text, matches[i])]]

\* one turn of the loop over PATTERNS: what it pushes onto api_keys
ApiKeyHits(file, text, p) ==
  LET matches == Match(text, p.pattern)
  IN  IF matches # <<>>
        THEN << [file |-> file, service |-> p.service,
                 line |-> findLineNumber(text, matches[1])] >>
        ELSE <<>>

\* the loop over Object.entries(PATTERNS), from the k-th entry on
RECURSIVE ScanApiKeys(_, _, _)
ScanApiKeys(file, text, k) ==
  IF k > Len(PATTERNS) THEN <<>>
  ELSE ApiKeyHits(file, text, PATTERNS[k]) \o ScanApiKeys(file, text, k + 1)

\* one turn of the loop over CODE_PATTERNS: what it pushes onto code_issues
CodeIssueHits(file, text, c) ==
  LET matches == Match(text, c.regex)
  IN  IF matches # <<>>
        THEN << [file |-> file, line |-> findLineNumber(text, matches[1]),
                 pattern |-> c.pattern] >>
        ELSE <<>>

\* the loop over Object.entries(CODE_PATTERNS), from the k-th entry on
RECURSIVE ScanCodeIssues(_, _, _)
ScanCodeIssues(file, text, k) ==
  IF k > Len(CODE_PATTERNS) THEN <<>>
  ELSE CodeIssueHits(file, text, CODE_PATTERNS[k])
         \o ScanCodeIssues(file, text, k + 1)

\* the regexes of the catalog, by the key they are stored under
RegexNames ==
  {PATTERNS[k].service : k \in DOMAIN PATTERNS}
    \cup {CODE_PATTERNS[k].pattern : k \in DOMAIN CODE_PATTERNS}

\* RegExp.prototype.test in place of String.prototype.match: one exec from
\* lastIndex, which stays after the match found there
LastIndexAfterTest(s, re, last) ==
  LET m == Exec(re, s, last + 1)
  IN  IF m.start = 0 THEN 0 ELSE m.end - 1

\* the repeated exec of text.match(re), from lastIndex last: a match moves
\* lastIndex behind it, a failing exec sets it to 0 and ends the loop
RECURSIVE LastIndexAfterExecs(_, _, _)
LastIndexAfterExecs(s, re, last) ==
  LET m == Exec(re, s, last + 1)
  IN  IF m.start = 0 THEN 0 ELSE LastIndexAfterExecs(s, re, m.end - 1)

\* the lastIndex that text.match(re) leaves on the global regex re: match
\* first sets it to 0, whatever it was
LastIndexAfterMatch(s, re, last) == LastIndexAfterExecs(s, re, 0)

\* the catalog after the two pattern loops of a scan: PATTERNS matched
\* against text, CODE_PATTERNS against code
AfterMatches(last, text, code) ==
  [n \in RegexNames |->
     IF \E k \in DOMAIN PATTERNS : PATTERNS[k].service = n
       THEN LET k == CHOOSE k \in DOMAIN PATTERNS : PATTERNS[k].service = n
            IN  LastIndexAfterMatch(text, PATTERNS[k].pattern, last[n])
       ELSE LET k == CHOOSE k \in DOMAIN CODE_PATTERNS :
                       CODE_PATTERNS[k].pattern = n
            IN  LastIndexAfterMatch(code, CODE_PATTERNS[k].regex, last[n])]


\* IsSensitiveName comparing the name as spelled, without toLowerCase
IsSensitiveNameAsSpelled(fileName) ==
  \E i \in DOMAIN SENSITIVE_FILES : SENSITIVE_FILES[i] = fileName

\* SENSITIVE_FILES.includes(fileName.toLowerCase())
IsSensitiveName(fileName) ==
  \E i \in DOMAIN SENSITIVE_FILES : SENSITIVE_FILES[i] = ToLowerCase(fileName)

\* the findings object of POST /api/scan as constructed
NewDirFindings(targetDir, clock) ==
  [api_keys |-> <<>>, sensitive_files |-> <<>>, code_issues |-> <<>>,
   summary |-> [total_files_scanned |-> 0, total_issues |-> 0,
                risk_level |-> "LOW", scanned_directory |-> targetDir,
                scan_started_at |-> clock]]

\* the findings object of scanUrl as constructed
NewUrlFindings(url, clock) ==
  [api_keys |-> <<>>, sensitive_files |-> <<>>, code_issues |-> <<>>,
   summary |-> [total_files_scanned |-> 1, total_issues |-> 0,
                risk_level |-> "LOW", scanned_url |-> url,
                scan_started_at |-> clock]]

\* OnFileYield without the filename check: the file is counted only
OnFileYieldCountOnly(findings, targetDir, filePath) ==
  [findings EXCEPT !.summary.total_files_scanned = @ + 1]

\* body of the for-await loop up to the await of fs.readFile
OnFileYield(findings, targetDir, filePath) ==
  LET counted == [findings EXCEPT !.summary.total_files_scanned = @ + 1]
  IN  IF IsSensitiveName(Basename(filePath))
        THEN [counted EXCEPT !.sensitive_files =
                Append(@, [file |-> Relative(targetDir, filePath), line |-> Null])]
        ELSE counted

\* body of the for-await loop after fs.readFile has returned the content
OnFileContent(findings, relativePath, content) ==
  [findings EXCEPT
     !.api_keys = @ \o ScanApiKeys(relativePath, content, 1),
     !.code_issues = @ \o ScanCodeIssues(relativePath, content, 1)]

\* TotalIssues leaving code_issues out of the sum
TotalIssuesWithoutCode(findings) ==
  Len(findings.api_keys) + Len(findings.sensitive_files)

\* const totalIssues = api_keys.length + sensitive_files.length + code_issues.length
TotalIssues(findings) ==
  Len(findings.api_keys) + Len(findings.sensitive_files) + Len(findings.code_issues)

\* RiskLevel with the MEDIUM boundary off by one (< 3 for <= 3)
RiskLevelBelowThree(totalIssues) ==
  IF totalIssues = 0 THEN "LOW"
  ELSE IF totalIssues < 3 THEN "MEDIUM"
  ELSE "HIGH"

\* totalIssues === 0 ? 'LOW' : totalIssues <= 3 ? 'MEDIUM' : 'HIGH'
RiskLevel(totalIssues) ==
  IF totalIssues = 0 THEN "LOW"
  ELSE IF totalIssues <= 3 THEN "MEDIUM"
  ELSE "HIGH"

\* the three summary assignments that end a scan
Aggregate(findings, clock) ==
  LET totalIssues == TotalIssues(findings)
  IN  [findings EXCEPT !.summary =
         [total_issues |-> totalIssues,
          risk_level |-> RiskLevel(totalIssues),
          scan_completed_at |-> clock] @@ @]

(***************************************************************************)
(* Remote page: inline script blocks                                       *)
(***************************************************************************)
\* index of the first occurrence of sub in s at or after i, 0 if none
RECURSIVE IndexOfSub(_, _, _)
IndexOfSub(s, sub, i) ==
  IF i + Len(sub) - 1 > Len(s) THEN 0
  ELSE IF SubSeq(s, i, i + Len(sub) - 1) = sub THEN i
  ELSE IndexOfSub(s, sub, i + 1)

ScriptOpen == <<"<","s","c","r","i","p","t",">">>

ScriptClose == <<"<","/","s","c","r","i","p","t",">">>

\* $('script').each(...): the non-empty contents of the script elements of
\* the page, in document order.  A script element runs from its open tag to
\* the next close tag, or to the end of the page when it is never closed.
RECURSIVE ScriptContents(_, _)
ScriptContents(body, i) ==
  LET o == IndexOfSub(body, ScriptOpen, i)
  IN  IF o = 0 THEN <<>>
      ELSE LET from == o + Len(ScriptOpen)
               c == IndexOfSub(body, ScriptClose, from)
               till == IF c = 0 THEN Len(body) ELSE c - 1
               content == SubSeq(body, from, till)
               rest == IF c = 0 THEN <<>>
                       ELSE ScriptContents(body, c + Len(ScriptClose))
           IN  (IF content # <<>> THEN <<content>> ELSE <<>>) \o rest

\* SENSITIVE_FILES.forEach(...) of scanUrl, from the k-th name on
RECURSIVE ScanSensitiveRefs(_, _, _)
ScanSensitiveRefs(url, textContent, k) ==
  IF k > Len(SENSITIVE_FILES) THEN <<>>
  ELSE (IF Includes(textContent, SENSITIVE_FILES[k])
          THEN << [file |-> url, line |-> Null] >>
          ELSE <<>>)
       \o ScanSensitiveRefs(url, textContent, k + 1)

\* CombinedScript taking the whole page for the script text
CombinedScriptWholePage(data) == data

\* const combinedScript = scriptContents.join('\n')
CombinedScript(data) == JoinLines(ScriptContents(data, 1))

\* scanUrl from the response of axios.get to `return findings`
ScanPage(url, data, clockStart, clockEnd) ==
  LET combinedScript == CombinedScript(data)
      created == NewUrlFindings(url, clockStart)
      filled == [created EXCEPT
                   !.api_keys = ScanApiKeys(url, data, 1),
                   !.code_issues = ScanCodeIssues(url, combinedScript, 1),
                   !.sensitive_files = ScanSensitiveRefs(url, data, 1)]
  IN  Aggregate(filled, clockEnd)

(***************************************************************************)
(* The outside world: a directory tree, the pages a GET may return, the    *)
(* request bodies.  fs maps each existing path to its node.                *)
(***************************************************************************)
MaxClock == 2

DirNode == [kind |-> "dir", content |-> <<>>]

FileNode(text) == [kind |-> "file", content |-> text]

EmptyTree == [p \in {} |-> DirNode]

\* OPENAI_KEY=sk- followed by 48 times the letter a
KeyText == <<"O","P","E","N","A","I","_","K","E","Y","=","s","k","-">> \o Repeat("a", 48)

\* a Hugging Face shaped token on line 2 and again on line 3
TwoKeysText ==
  <<"x", "\n">> \o <<"h","f","_">> \o Repeat("z", 34) \o <<"\n">> \o <<"h","f","_">> \o Repeat("z", 34)

\* a debug flag whose text spans a line break, and a call on line 3
DebugText == <<"l","e","t"," ","a">> \o <<"\n">> \o <<"d","e","b","u","g",":">> \o <<"\n">> \o <<" ","t","r","u","e",";","x",".","c","r","e","a","t","e","(">>

TopFiles ==
  { [name |-> <<"k",".","t","x","t">>, content |-> KeyText],
    [name |-> <<"s","e","c","r","e","t","s",".","j","s","o","n">>, content |-> <<>>],
    [name |-> <<"l","o","g","o",".","p","n","g">>, content |-> KeyText],
    [name |-> <<".","E","N","V">>, content |-> TwoKeysText],
    [name |-> <<"a","p","p",".","j","s">>, content |-> DebugText],
    [name |-> <<"p","i","c",".","P","N","G">>, content |-> <<>>] }

SubFiles ==
  { [name |-> <<"k",".","t","x","t">>, content |-> KeyText],
    [name |-> <<"s","e","c","r","e","t","s",".","j","s","o","n">>, content |-> <<>>],
    [name |-> <<"l","o","g","o",".","p","n","g">>, content |-> KeyText] }

TopDirNames == { <<"p","r","o","j">>, <<"n","o","d","e","_","m","o","d","u","l","e","s">> }

SubDirNames == { <<"s","r","c">>, <<"n","o","d","e","_","m","o","d","u","l","e","s">> }

\* no file, or one file of `files`, in directory dir
OptionalFile(dir, files) ==
  {EmptyTree} \cup { Join(dir, f.name) :> FileNode(f.content) : f \in files }

\* no subdirectory, or one subdirectory holding at most one file
OptionalSubDir(dir) ==
  {EmptyTree} \cup
  UNION { { (Join(dir, d) :> DirNode) @@ p : p \in OptionalFile(Join(dir, d), SubFiles) }
          : d \in SubDirNames }

Trees ==
  UNION { { (<<>> :> DirNode) @@ (<<d>> :> DirNode) @@ p @@ q
            : p \in OptionalFile(<<d>>, TopFiles), q \in OptionalSubDir(<<d>>) }
          : d \in TopDirNames }

\* the directories a scan may be asked for: every path of the tree below its
\* root, and one path that does not exist
Targets(tree) == (DOMAIN tree \ {<<>>}) \cup { <<<<"m","i","s","s","i","n","g">>>> }

Urls == { <<>>, <<"e","x","a","m","p","l","e",".","c","o","m">>, <<"h","t","t","p",":","/","/","a">>, <<"h","t","t","p","s",":","/","/","a">> }

\* request bodies of POST /api/scan/url: with a url, or without one
UrlBodies == { [url |-> u] : u \in Urls } \cup { [other |-> TRUE] }

Pages ==
  { <<"t","o","k","e","n"," ","<","s","c","r","i","p","t",">","<","/","s","c","r","i","p","t",">">>,
    <<"<","s","c","r","i","p","t",">","x",".","c","r","e","a","t","e","(","<","/","s","c","r","i","p","t",">"," ",".","e","n","v">>,
    KeyText \o <<"<","s","c","r","i","p","t",">","a","<","/","s","c","r","i","p","t",">">>,
    <<"<","s","c","r","i","p","t",">">> \o KeyText \o <<"<","/","s","c","r","i","p","t",">">>,
    <<"d","e","b","u","g","=","t","r","u","e","<","s","c","r","i","p","t",">","<","/","s","c","r","i","p","t",">">>,
    <<"D","E","B","U","G","=","t","r","u","e","<","s","c","r","i","p","t",">","d","e","b","u","g",":","<","/","s","c","r","i","p","t",">","<","s","c","r","i","p","t",">","t","r","u","e","<","/","s","c","r","i","p","t",">">> }

(***************************************************************************)
(* Directory walk                                                          *)
(***************************************************************************)
\* the paths directly inside dir
Children(tree, dir) ==
  { p \in DOMAIN tree : Len(p) = Len(dir) + 1 /\ SubSeq(p, 1, Len(dir)) = dir }

\* the Dirent of path p
Dirent(tree, p) == [name |-> Basename(p), isDir |-> tree[p].kind = "dir"]

\* what fs.readdir(dir, {withFileTypes: true}) may resolve to: the entries of
\* dir in any order
Listings(tree, dir) ==
  LET kids == Children(tree, dir)
      n == Cardinality(kids)
  IN  { [i \in 1..n |-> Dirent(tree, order[i])]
        : order \in { o \in [1..n -> kids] : \A i, j \in 1..n : o[i] = o[j] => i = j } }

\* IsSkippedDir looking the name up in the wrong set
IsSkippedDirWrongSet(name) == name \in SKIP_EXTS

\* SKIP_DIRS.has(entry.name)
IsSkippedDir(name) == name \in SKIP_DIRS

\* SKIP_EXTS.has(path.extname(entry.name))
IsSkippedExt(name) == ExtName(name) \in SKIP_EXTS

\* The generator walk(dir), resumed: stack holds one frame per walk call
\* whose for loop is running (its dir and the entries still to visit).  Runs
\* to the next await of fs.readdir, to the next yield, or to the end.
RECURSIVE Advance(_)
Advance(stack) ==
  IF stack = <<>> THEN [kind |-> "done", path |-> <<>>, stack |-> <<>>]
  ELSE LET top == stack[Len(stack)]
       IN  IF top.rest = <<>> THEN Advance(SubSeq(stack, 1, Len(stack) - 1))
           ELSE LET entry == Head(top.rest)
                    fullPath == Join(top.dir, entry.name)
                    next == [stack EXCEPT ![Len(stack)].rest = Tail(top.rest)]
                IN  IF entry.isDir
                      THEN IF ~IsSkippedDir(entry.name)
                             THEN [kind |-> "readdir", path |-> fullPath, stack |-> next]
                             ELSE Advance(next)
                      ELSE IF ~IsSkippedExt(entry.name)
                             THEN [kind |-> "yield", path |-> fullPath, stack |-> next]
                             ELSE Advance(next)

(***************************************************************************)
(* State                                                                   *)
(***************************************************************************)
VARIABLES
  fs,        \* the directory tree
  now,       \* the wall clock, read by new Date()
  req,       \* per request: the handler's position and locals, and its response
  lastIndex  \* the lastIndex of every regex of PATTERNS and CODE_PATTERNS

vars == <<fs, now, req, lastIndex>>

Reqs == {"r1", "r2"}

\* pc: off (no request is sent), idle (not received), stat / readdir /
\* readFile / get (awaiting that call), done (response sent).  The last five
\* fields are history: trace is the order of the handler's I/O calls, timestamps and response, visited the
\* paths the walk yielded, unlisted the directories whose listing failed,
\* unread the files whose read failed, concurrent the requests that were
\* being served when this one arrived.
IdleReq ==
  [pc |-> "idle", kind |-> "none", body |-> Undefined,
   targetDir |-> <<>>, url |-> <<>>,
   findings |-> Undefined, stack |-> <<>>, pending |-> <<>>,
   data |-> <<>>, response |-> [status |-> 0, body |-> Undefined],
   trace |-> <<>>, visited |-> <<>>, unlisted |-> <<>>, unread |-> <<>>,
   concurrent |-> {}]

\* the requests other than r that have arrived and are not yet answered
InFlight(r) == {q \in Reqs \ {r} : req[q].pc \notin {"off", "idle", "done"}}

\* a client that sends no request
OffReq == [IdleReq EXCEPT !.pc = "off"]

\* the module-level PATTERNS and CODE_PATTERNS as created: lastIndex 0
FreshCatalog == [n \in RegexNames |-> 0]

\* one client
Init ==
  /\ fs \in Trees
  /\ now = 0
  /\ req = [r \in Reqs |-> IF r = "r1" THEN IdleReq ELSE OffReq]
  /\ lastIndex = FreshCatalog

\* res.status(400).json({error, message, timestamp})
Fail(rq, error, message) ==
  [rq EXCEPT !.pc = "done",
             !.response = [status |-> 400,
                           body |-> [error |-> error, message |-> message]],
             !.trace = Append(@, "respond")]

\* res.json(findings)
Respond(rq, findings) ==
  [rq EXCEPT !.pc = "done",
             !.findings = findings,
             !.response = [status |-> 200, body |-> findings]]

(***************************************************************************)
(* POST /api/scan                                                          *)
(***************************************************************************)
\* what fs.stat(dir) may settle to
StatOutcomes(tree, dir) ==
  IF dir \in DOMAIN tree THEN {tree[dir].kind, "EACCES"} ELSE {"ENOENT"}

\* validateDirectory without the isDirectory check
validateDirectoryNoKindCheck(stat) ==
  CASE stat \in {"dir", "file"} -> "ok"
    [] stat = "ENOENT" -> "Directory does not exist"
    [] OTHER -> stat

\* validateDirectory: "ok", or the message of the error it throws
validateDirectory(stat) ==
  CASE stat = "dir" -> "ok"
    [] stat = "file" -> "Path is not a directory"
    [] stat = "ENOENT" -> "Directory does not exist"
    [] OTHER -> stat

\* the handler from a resumption of the for-await loop to its next await, or
\* to res.json
Resume(rq, clock) ==
  LET adv == Advance(rq.stack)
  IN  CASE adv.kind = "readdir" ->
             [rq EXCEPT !.stack = adv.stack, !.pc = "readdir",
                        !.pending = adv.path,
                        !.trace = Append(@, "readdir")]
        [] adv.kind = "yield" ->
             [rq EXCEPT !.stack = adv.stack, !.pc = "readFile",
                        !.pending = adv.path,
                        !.findings = OnFileYield(@, rq.targetDir, adv.path),
                        !.visited = Append(@, adv.path),
                        !.trace = Append(@, "readFile")]
        [] adv.kind = "done" ->
             Respond([rq EXCEPT !.stack = <<>>, !.pending = <<>>,
                                !.trace = @ \o <<"aggregate", "scan_completed_at",
                                                 "respond">>],
                     Aggregate(rq.findings, clock))

\* the request arrives; the handler runs to the await of fs.stat.  The body's
\* directory is any path of Targets (resolve of an absolute path is itself).
PostScan(r) ==
  /\ req[r].pc = "idle"
  /\ \E directory \in Targets(fs) :
       req' = [req EXCEPT ![r] =
                 [@ EXCEPT !.pc = "stat", !.kind = "dir",
                           !.body = [directory |-> directory],
                           !.targetDir = directory,
                           !.concurrent = InFlight(r),
                           !.trace = Append(@, "stat")]]
  /\ UNCHANGED <<fs, now, lastIndex>>

\* fs.stat settles: validateDirectory throws, or findings is created and the
\* walk runs to its first await, fs.readdir(targetDir)
StatReturns(r) ==
  /\ req[r].pc = "stat"
  /\ \E stat \in StatOutcomes(fs, req[r].targetDir) :
       LET verdict == validateDirectory(stat)
       IN  req' = [req EXCEPT ![r] =
                     IF verdict # "ok"
                       THEN Fail(@, "Scan Failed", verdict)
                       ELSE [@ EXCEPT
                               !.findings = NewDirFindings(req[r].targetDir, now),
                               !.pc = "readdir",
                               !.pending = req[r].targetDir,
                               !.trace = @ \o <<"scan_started_at", "readdir">>]]
  /\ UNCHANGED <<fs, now, lastIndex>>

\* fs.readdir has resolved to entries: the for loop of this walk call starts
OnListing(rq, entries, clock) ==
  Resume([rq EXCEPT !.stack = Append(@, [dir |-> rq.pending, rest |-> entries])],
         clock)

\* OnListingError with the error ending the walk in every caller as well
OnListingErrorEndsWalk(rq, clock) ==
  Resume([rq EXCEPT !.stack = <<>>,
                    !.unlisted = Append(@, rq.pending),
                    !.trace = Append(@, "readdir failed")],
         clock)

\* fs.readdir has rejected: the catch of this walk call logs the error and
\* the call returns, so the walk goes on in the caller, if there is one
OnListingError(rq, clock) ==
  Resume([rq EXCEPT !.unlisted = Append(@, rq.pending),
                    !.trace = Append(@, "readdir failed")],
         clock)

\* fs.readdir settles
ReaddirReturns(r) ==
  /\ req[r].pc = "readdir"
  /\ \E ok \in BOOLEAN :
       \E entries \in Listings(fs, req[r].pending) :
         req' = [req EXCEPT ![r] = IF ok THEN OnListing(@, entries, now)
                                         ELSE OnListingError(@, now)]
  /\ UNCHANGED <<fs, now, lastIndex>>

\* fs.readFile has resolved to content: it is scanned and the loop goes on
OnContent(rq, content, clock) ==
  LET relativePath == Relative(rq.targetDir, rq.pending)
  IN  Resume([rq EXCEPT !.findings = OnFileContent(@, relativePath, content)],
             clock)

\* OnReadError without the try/catch inside the loop: the error reaches the
\* catch of the handler
OnReadErrorUncaught(rq, clock) ==
  Fail([rq EXCEPT !.unread = Append(@, rq.pending),
                  !.trace = Append(@, "readFile failed")],
       "Scan Failed", "read failed")

\* fs.readFile has rejected: the catch inside the loop logs the error and the
\* loop goes on
OnReadError(rq, clock) ==
  Resume([rq EXCEPT !.unread = Append(@, rq.pending),
                    !.trace = Append(@, "readFile failed")],
         clock)

\* fs.readFile settles
ReadFileReturns(r) ==
  /\ req[r].pc = "readFile"
  /\ \E ok \in BOOLEAN :
       /\ req' = [req EXCEPT ![r] =
                    IF ok THEN OnContent(@, fs[req[r].pending].content, now)
                          ELSE OnReadError(@, now)]
       /\ lastIndex' =
            IF ok THEN LET content == fs[req[r].pending].content
                       IN  AfterMatches(lastIndex, content, content)
                  ELSE lastIndex
  /\ UNCHANGED <<fs, now>>

(***************************************************************************)
(* POST /api/scan/url                                                      *)
(***************************************************************************)
HttpPrefix == <<"h","t","t","p",":","/","/">>

HttpsPrefix == <<"h","t","t","p","s",":","/","/">>

\* UrlError without the prefix check
UrlErrorNoPrefixCheck(body) ==
  IF "url" \notin DOMAIN body \/ body.url = <<>>
    THEN "URL is required"
    ELSE "ok"

\* the two checks of the handler on req.body.url: "ok", or the message of the
\* error thrown
UrlError(body) ==
  IF "url" \notin DOMAIN body \/ body.url = <<>>
    THEN "URL is required"
  ELSE IF ~StartsWith(body.url, HttpPrefix) /\ ~StartsWith(body.url, HttpsPrefix)
    THEN "Invalid URL format. URL must start with http:// or https://"
  ELSE "ok"

\* the request arrives; the handler checks the url and scanUrl runs to the
\* await of axios.get
PostScanUrl(r) ==
  /\ req[r].pc = "idle"
  /\ \E body \in UrlBodies :
       LET verdict == UrlError(body)
           received == [req[r] EXCEPT !.kind = "url", !.body = body,
                                      !.concurrent = InFlight(r)]
       IN  req' = [req EXCEPT ![r] =
                     IF verdict # "ok"
                       THEN Fail(received, "URL Scan Failed", verdict)
                       ELSE [received EXCEPT !.pc = "get", !.url = body.url,
                                             !.trace = Append(@, "GET")]]
  /\ UNCHANGED <<fs, now, lastIndex>>

\* axios.get settles: with an error, which scanUrl rethrows, or with a page,
\* which scanUrl scans and returns
GetReturns(r) ==
  /\ req[r].pc = "get"
  /\ \E ok \in BOOLEAN :
       \E data \in Pages :
         /\ req' = [req EXCEPT ![r] =
                   IF ~ok
                     THEN Fail([@ EXCEPT !.trace = Append(@, "GET failed")],
                               "URL Scan Failed", "Failed to scan URL")
                     ELSE Respond([@ EXCEPT !.data = data,
                                            !.trace = @ \o <<"scan_started_at",
                                              "aggregate", "scan_completed_at",
                                              "respond">>],
                                  ScanPage(req[r].url, data, now, now))]
         /\ lastIndex' =
              IF ok THEN AfterMatches(lastIndex, data, CombinedScript(data))
                    ELSE lastIndex
  /\ UNCHANGED <<fs, now>>

\* time passes while a request is being served
Tick ==
  /\ \E r \in Reqs : req[r].pc \notin {"off", "idle", "done"}
  /\ now < MaxClock
  /\ now' = now + 1
  /\ UNCHANGED <<fs, req, lastIndex>>

Next ==
  \/ \E r \in Reqs : PostScan(r)
  \/ \E r \in Reqs : StatReturns(r)
  \/ \E r \in Reqs : ReaddirReturns(r)
  \/ \E r \in Reqs : ReadFileReturns(r)
  \/ \E r \in Reqs : PostScanUrl(r)
  \/ \E r \in Reqs : GetReturns(r)
  \/ Tick

Spec == Init /\ [][Next]_vars

\* the tree served to two clients at once: proj holding k.txt and src, src
\* holding secrets.json
ConcTrees ==
  { t \in Trees : /\ <<<<"p","r","o","j">>, <<"k",".","t","x","t">>>> \in DOMAIN t
                  /\ <<<<"p","r","o","j">>, <<"s","r","c">>, <<"s","e","c","r","e","t","s",".","j","s","o","n">>>> \in DOMAIN t }

\* two clients: the event loop takes the handlers' turns in any order
InitConc ==
  /\ fs \in ConcTrees
  /\ now = 0
  /\ req = [r \in Reqs |-> IdleReq]
  /\ lastIndex = FreshCatalog

\* the handlers' turns; the clock stands still
NextConc ==
  \/ \E r \in Reqs : PostScan(r)
  \/ \E r \in Reqs : StatReturns(r)
  \/ \E r \in Reqs : ReaddirReturns(r)
  \/ \E r \in Reqs : ReadFileReturns(r)
  \/ \E r \in Reqs : PostScanUrl(r)
  \/ \E r \in Reqs : GetReturns(r)

SpecConc == InitConc /\ [][NextConc]_vars

\* one client, and every call to the file system settles
SpecFair ==
  /\ Init
  /\ [][Next]_vars
  /\ \A r \in Reqs : /\ WF_vars(StatReturns(r))
                      /\ WF_vars(ReaddirReturns(r))
                      /\ WF_vars(ReadFileReturns(r))

(***************************************************************************)
(* Properties                                                              *)
(***************************************************************************)
Reported(r) == req[r].response.status = 200

Rejected(r) == req[r].response.status = 400

Report(r) == req[r].response.body

\* the request holds a findings object (created, maybe not yet returned)
Scanning(r) == req[r].findings # Undefined

HasEvent(r, e) == \E i \in DOMAIN req[r].trace : req[r].trace[i] = e

\* position of the first event e of the trace, 0 if none
FirstEvent(r, e) ==
  IF HasEvent(r, e)
    THEN CHOOSE i \in DOMAIN req[r].trace :
           /\ req[r].trace[i] = e
           /\ \A j \in 1..(i - 1) : req[r].trace[j] # e
    ELSE 0

\* the files of the tree below directory dir, at any depth
FilesBelow(tree, dir) ==
  { p \in DOMAIN tree : /\ tree[p].kind = "file"
                        /\ Len(p) > Len(dir)
                        /\ SubSeq(p, 1, Len(dir)) = dir }

\* some directory on the way from `from` (excluded) to file p has a skipped name
UnderSkippedDir(from, p) ==
  \E j \in (Len(from) + 1)..(Len(p) - 1) : p[j] \in SKIP_DIRS

HasSkippedExt(p) == ExtName(Basename(p)) \in SKIP_EXTS

\* the files a walk from dir is to yield
EligibleFiles(tree, dir) ==
  { p \in FilesBelow(tree, dir) : ~UnderSkippedDir(dir, p) /\ ~HasSkippedExt(p) }

\* the `file` of every finding of a findings object
FindingFiles(findings) ==
  { findings.api_keys[i].file : i \in DOMAIN findings.api_keys }
    \cup { findings.sensitive_files[i].file : i \in DOMAIN findings.sensitive_files }
    \cup { findings.code_issues[i].file : i \in DOMAIN findings.code_issues }

\* C1: in every report handed to the caller, summary.total_issues is the sum
\* of the lengths of api_keys, sensitive_files and code_issues.
C1_TotalIssuesIsSum ==
  \A r \in Reqs :
    Reported(r) =>
      Report(r).summary.total_issues =
        Len(Report(r).api_keys) + Len(Report(r).sensitive_files)
          + Len(Report(r).code_issues)

\* a directory report with findings of two kinds, returned after a read failed
C1_Witness ==
  \E r \in Reqs :
    /\ Reported(r) /\ req[r].kind = "dir"
    /\ req[r].unread # <<>>
    /\ Report(r).code_issues # <<>>
    /\ Report(r).sensitive_files # <<>>

\* C2: in every report, risk_level is LOW iff total_issues = 0, MEDIUM iff
\* 1 <= total_issues <= 3, HIGH iff total_issues > 3.
C2_RiskLevelTable ==
  \A r \in Reqs :
    Reported(r) =>
      LET n == Report(r).summary.total_issues
          level == Report(r).summary.risk_level
      IN  /\ level \in {"LOW", "MEDIUM", "HIGH"}
          /\ level = "LOW" <=> n = 0
          /\ level = "MEDIUM" <=> (1 <= n /\ n <= 3)
          /\ level = "HIGH" <=> n > 3

\* a report with exactly 4 issues, which is HIGH
C2_Witness ==
  \E r \in Reqs :
    /\ Reported(r)
    /\ Report(r).summary.total_issues = 4
    /\ Report(r).summary.risk_level = "HIGH"

\* C3 as stated: no file with a skipped directory name anywhere on its path,
\* the target root and what is above it included, and no file with a skipped
\* extension, is yielded, counted or named by a finding.
C3_Original ==
  \A r \in Reqs :
    (req[r].kind = "dir" /\ Scanning(r)) =>
      /\ req[r].findings.summary.total_files_scanned = Len(req[r].visited)
      /\ \A i \in DOMAIN req[r].visited :
           /\ ~UnderSkippedDir(<<>>, req[r].visited[i])
           /\ ~HasSkippedExt(req[r].visited[i])

\* C3 amended: the skip-set of directory names applies to the directories
\* met below the target root (the root is walked whatever its name and
\* whatever lies above it): no file under such a directory and no file with
\* a skipped extension is counted in total_files_scanned or named by a finding.
C3_SkipSetsBelowRoot ==
  \A r \in Reqs :
    (req[r].kind = "dir" /\ Scanning(r)) =>
      /\ req[r].findings.summary.total_files_scanned = Len(req[r].visited)
      /\ \A i \in DOMAIN req[r].visited :
           /\ ~UnderSkippedDir(req[r].targetDir, req[r].visited[i])
           /\ ~HasSkippedExt(req[r].visited[i])
      /\ FindingFiles(req[r].findings) \subseteq
           { Relative(req[r].targetDir, req[r].visited[i]) : i \in DOMAIN req[r].visited }

\* a report of a walk that yielded a file (one whose extension differs from
\* a skipped one by case only) and passed over a skipped directory holding a
\* file
C3_Witness ==
  \E r \in Reqs :
    /\ Reported(r) /\ req[r].kind = "dir"
    /\ req[r].unlisted = <<>>
    /\ \E i \in DOMAIN req[r].visited :
         ToLowerCase(ExtName(Basename(req[r].visited[i]))) \in SKIP_EXTS
    /\ \E p \in FilesBelow(fs, req[r].targetDir) : UnderSkippedDir(req[r].targetDir, p)

\* the blobs a returned report has scanned: the files read, or the page
Blobs(r) ==
  IF req[r].kind = "dir"
    THEN { [file |-> Relative(req[r].targetDir, req[r].visited[i]),
            text |-> fs[req[r].visited[i]].content]
           : i \in { j \in DOMAIN req[r].visited :
                       \A u \in DOMAIN req[r].unread :
                         req[r].unread[u] # req[r].visited[j] } }
    ELSE { [file |-> req[r].url, text |-> req[r].data] }

\* C4: in a report, each (blob, provider) pair has exactly one ApiKeyFinding
\* when the provider's pattern occurs in the blob, however often, and none
\* when it does not; its line is the one resolved from the first match; no
\* ApiKeyFinding is about anything else than a scanned blob.
C4_OneFindingPerBlobAndProvider ==
  \A r \in Reqs :
    Reported(r) =>
      /\ \A b \in Blobs(r) :
           \A k \in DOMAIN PATTERNS :
             LET keys == Report(r).api_keys
                 hits == { i \in DOMAIN keys :
                             /\ keys[i].file = b.file
                             /\ keys[i].service = PATTERNS[k].service }
                 first == Exec(PATTERNS[k].pattern, b.text, 1)
             IN  IF first.start # 0
                   THEN /\ Cardinality(hits) = 1
                        /\ \A i \in hits :
                             keys[i].line =
                               findLineNumber(b.text,
                                   SubSeq(b.text, first.start, first.end - 1))
                   ELSE hits = {}
      /\ \A i \in DOMAIN Report(r).api_keys :
           \E b \in Blobs(r) : Report(r).api_keys[i].file = b.file

\* a report on a blob in which one provider's pattern occurs twice
C4_Witness ==
  \E r \in Reqs :
    /\ Reported(r)
    /\ \E b \in Blobs(r) :
         \E k \in DOMAIN PATTERNS :
           /\ Len(Match(b.text, PATTERNS[k].pattern)) >= 2
           /\ \E i \in DOMAIN Report(r).api_keys :
                /\ Report(r).api_keys[i].service = PATTERNS[k].service
                /\ Report(r).api_keys[i].line = 2

\* the target of a directory scan exists and is a directory
TargetIsDirectory(r) ==
  req[r].targetDir \in DOMAIN fs /\ fs[req[r].targetDir].kind = "dir"

\* C5: a directory scan of a path that does not exist or is no directory is
\* answered by an error and no report, and neither lists a directory nor
\* reads a file; every directory scan calls fs.stat before anything else.
C5_InvalidDirectoryFailsFast ==
  \A r \in Reqs :
    req[r].kind = "dir" =>
      /\ req[r].trace[1] = "stat"
      /\ ~TargetIsDirectory(r) =>
           /\ ~HasEvent(r, "readdir")
           /\ ~HasEvent(r, "readFile")
           /\ ~Scanning(r)
           /\ ~Reported(r)
           /\ req[r].pc = "done" =>
                (Rejected(r) /\ Report(r).error = "Scan Failed")

\* a scan of a missing path, answered with the error of validateDirectory
C5_Witness ==
  \E r \in Reqs :
    /\ req[r].kind = "dir" /\ req[r].pc = "done"
    /\ req[r].targetDir \notin DOMAIN fs
    /\ Rejected(r)
    /\ Report(r).message = "Directory does not exist"

\* the url of a request body is missing, empty or without http(s):// prefix
BadUrl(body) ==
  \/ "url" \notin DOMAIN body
  \/ body.url = <<>>
  \/ /\ SubSeq(body.url, 1, 7) # <<"h","t","t","p",":","/","/">>
     /\ SubSeq(body.url, 1, 8) # <<"h","t","t","p","s",":","/","/">>

\* C6: a URL scan whose url is missing, empty or without http:// or https://
\* prefix is answered by an error and no report, and no GET is issued for
\* it; a GET is issued only for a url that passes both checks.
C6_InvalidUrlNoRequest ==
  \A r \in Reqs :
    req[r].kind = "url" =>
      /\ BadUrl(req[r].body) =>
           /\ req[r].pc = "done"
           /\ Rejected(r)
           /\ Report(r).error = "URL Scan Failed"
           /\ ~HasEvent(r, "GET")
           /\ ~Scanning(r)
      /\ HasEvent(r, "GET") => ~BadUrl(req[r].body)

\* the url example.com, rejected
C6_Witness ==
  \E r \in Reqs :
    /\ req[r].kind = "url" /\ req[r].pc = "done"
    /\ "url" \in DOMAIN req[r].body
    /\ req[r].body.url = <<"e","x","a","m","p","l","e",".","c","o","m">>
    /\ Rejected(r)

\* The case of C7: a directory scan has returned a report; below the target
\* there is exactly one file, its text is OPENAI_KEY=sk- and 48 times a, its
\* name is neither skipped nor sensitive, and listing and reading succeeded.
C7_Case(r) ==
  /\ Reported(r) /\ req[r].kind = "dir"
  /\ req[r].unlisted = <<>> /\ req[r].unread = <<>>
  /\ \E p \in FilesBelow(fs, req[r].targetDir) :
       /\ FilesBelow(fs, req[r].targetDir) = {p}
       /\ fs[p].content = <<"O","P","E","N","A","I","_","K","E","Y","=","s","k","-">> \o [i \in 1..48 |-> "a"]
       /\ p \in EligibleFiles(fs, req[r].targetDir)
       /\ ~IsSensitiveName(Basename(p))

\* C7 as stated: that report has exactly one ApiKeyFinding (OpenAI, line 1),
\* one file scanned, one issue, risk MEDIUM.
C7_Original ==
  \A r \in Reqs :
    C7_Case(r) =>
      /\ Len(Report(r).api_keys) = 1
      /\ Report(r).api_keys[1].service = "OpenAI"
      /\ Report(r).api_keys[1].line = 1
      /\ Report(r).summary.total_files_scanned = 1
      /\ Report(r).summary.total_issues = 1
      /\ Report(r).summary.risk_level = "MEDIUM"

\* C7 amended: that report has one file scanned and exactly one OpenAI
\* finding, on line 1; the same text also matches the Cohere, AI21 and Azure
\* OpenAI patterns and the Hardcoded Credentials pattern (KEY), so it has 4
\* ApiKeyFindings and 1 CodeIssueFinding, all on line 1, no sensitive file,
\* total_issues = 5 and risk_level = HIGH.
C7_OpenAIKeyFile ==
  \A r \in Reqs :
    C7_Case(r) =>
      /\ Report(r).summary.total_files_scanned = 1
      /\ [i \in DOMAIN Report(r).api_keys |-> Report(r).api_keys[i].service]
           = <<"OpenAI", "Cohere", "AI21", "Azure OpenAI">>
      /\ \A i \in DOMAIN Report(r).api_keys : Report(r).api_keys[i].line = 1
      /\ Len(Report(r).code_issues) = 1
      /\ Report(r).code_issues[1].pattern = "Hardcoded Credentials"
      /\ Report(r).code_issues[1].line = 1
      /\ Report(r).sensitive_files = <<>>
      /\ Report(r).summary.total_issues = 5
      /\ Report(r).summary.risk_level = "HIGH"

\* such a report has been returned
C7_Witness == \E r \in Reqs : C7_Case(r)

\* C8: in a directory scan a failed read never ends the scan with an error;
\* every yielded file, read or not, is counted once in total_files_scanned;
\* and when every listing succeeds the walk yields every eligible file,
\* whichever reads fail.
C8_ReadFailureDoesNotAbort ==
  \A r \in Reqs :
    req[r].kind = "dir" =>
      /\ (req[r].unread # <<>> /\ req[r].pc = "done") => Reported(r)
      /\ Scanning(r) =>
           /\ req[r].findings.summary.total_files_scanned = Len(req[r].visited)
           /\ \A i, j \in DOMAIN req[r].visited :
                req[r].visited[i] = req[r].visited[j] => i = j
           /\ \A u \in DOMAIN req[r].unread :
                \E i \in DOMAIN req[r].visited : req[r].visited[i] = req[r].unread[u]
      /\ (Reported(r) /\ req[r].unlisted = <<>>) =>
           { req[r].visited[i] : i \in DOMAIN req[r].visited }
             = EligibleFiles(fs, req[r].targetDir)

\* a report of a walk whose first file could not be read and which went on
\* to a second file
C8_Witness ==
  \E r \in Reqs :
    /\ Reported(r) /\ req[r].kind = "dir"
    /\ Len(req[r].visited) >= 2
    /\ req[r].unread # <<>>
    /\ req[r].unread[1] = req[r].visited[1]
    /\ Report(r).summary.total_files_scanned = 2

\* C9: when the listing of the traversal root fails, or the GET of a URL scan
\* fails, the caller receives an error and never a report.
C9_FatalErrorsAreErrors ==
  \A r \in Reqs :
    req[r].pc = "done" =>
      /\ (req[r].kind = "dir" /\ req[r].unlisted # <<>>
            /\ req[r].unlisted[1] = req[r].targetDir) =>
           (Rejected(r) /\ ~Reported(r))
      /\ (req[r].kind = "url" /\ HasEvent(r, "GET failed")) =>
           (Rejected(r) /\ ~Reported(r))

\* C10: in every report, scan_started_at is taken before acquisition begins
\* (the first fs.readdir of the walk, the GET), scan_completed_at after
\* aggregation, and started <= completed.
C10_TimestampsBracketTheScan ==
  \A r \in Reqs :
    Reported(r) =>
      LET acquisition == IF req[r].kind = "dir" THEN "readdir" ELSE "GET"
      IN  /\ FirstEvent(r, "scan_started_at") < FirstEvent(r, acquisition)
          /\ FirstEvent(r, "aggregate") < FirstEvent(r, "scan_completed_at")
          /\ Report(r).summary.scan_started_at <= Report(r).summary.scan_completed_at

\* the text of some script block of the page matches regex
InSomeScript(data, regex) ==
  \E i \in DOMAIN ScriptContents(data, 1) :
    Exec(regex, ScriptContents(data, 1)[i], 1).start # 0

\* the report of a URL scan has a CodeIssueFinding for code pattern c
HasCodeIssue(r, c) ==
  \E i \in DOMAIN Report(r).code_issues : Report(r).code_issues[i].pattern = c.pattern

\* the report of a URL scan has an ApiKeyFinding for secret pattern p
HasApiKey(r, p) ==
  \E i \in DOMAIN Report(r).api_keys : Report(r).api_keys[i].service = p.service

\* secrets are matched against the raw body
SecretsFromRawBody(r) ==
  \A k \in DOMAIN PATTERNS :
    HasApiKey(r, PATTERNS[k]) <=> Exec(PATTERNS[k].pattern, req[r].data, 1).start # 0

\* C11 as stated: in a URL report, secrets are matched against the raw body; a
\* code-risk pattern that occurs in the body but in no script block yields no
\* CodeIssueFinding; a page with no non-empty script block yields none at all.
C11_Original ==
  \A r \in Reqs :
    (Reported(r) /\ req[r].kind = "url") =>
      /\ SecretsFromRawBody(r)
      /\ \A k \in DOMAIN CODE_PATTERNS :
           (/\ Exec(CODE_PATTERNS[k].regex, req[r].data, 1).start # 0
            /\ ~InSomeScript(req[r].data, CODE_PATTERNS[k].regex))
             => ~HasCodeIssue(r, CODE_PATTERNS[k])
      /\ ScriptContents(req[r].data, 1) = <<>> => Report(r).code_issues = <<>>

\* C11 amended: in a URL report, secrets are matched against the raw body and
\* code-risk patterns against the newline-joined script contents only: a
\* code-risk pattern yields a CodeIssueFinding exactly when it matches that
\* joined text, which it also does when its match spans the newline between
\* two script blocks although it occurs in no single block; a page with no
\* non-empty script block yields no CodeIssueFinding at all.
C11_CodePatternsOnJoinedScripts ==
  \A r \in Reqs :
    (Reported(r) /\ req[r].kind = "url") =>
      /\ SecretsFromRawBody(r)
      /\ \A k \in DOMAIN CODE_PATTERNS :
           HasCodeIssue(r, CODE_PATTERNS[k]) <=>
             Exec(CODE_PATTERNS[k].regex,
                  JoinLines(ScriptContents(req[r].data, 1)), 1).start # 0
      /\ ScriptContents(req[r].data, 1) = <<>> => Report(r).code_issues = <<>>

\* a report on a page with a code-risk pattern outside its only, empty, script
\* block: no code issue
C11_Witness ==
  \E r \in Reqs :
    /\ Reported(r) /\ req[r].kind = "url"
    /\ ScriptContents(req[r].data, 1) = <<>>
    /\ \E k \in DOMAIN CODE_PATTERNS :
         Exec(CODE_PATTERNS[k].regex, req[r].data, 1).start # 0
    /\ Report(r).code_issues = <<>>

\* the loop body of the directory scan replayed over the files a walk yielded,
\* from the i-th on: the name check, then the patterns unless the read failed
RECURSIVE ReplayFiles(_, _, _, _, _, _)
ReplayFiles(findings, tree, targetDir, visited, unread, i) ==
  IF i > Len(visited) THEN findings
  ELSE LET p == visited[i]
           named == OnFileYield(findings, targetDir, p)
           scanned == IF p \in Range(unread) THEN named
                      ELSE OnFileContent(named, Relative(targetDir, p),
                                         tree[p].content)
       IN  ReplayFiles(scanned, tree, targetDir, visited, unread, i + 1)

\* the report of request r computed from what r itself was given: its target,
\* the files its walk yielded and their content, its page, its timestamps
ReportAlone(r) ==
  LET started == Report(r).summary.scan_started_at
      completed == Report(r).summary.scan_completed_at
  IN  IF req[r].kind = "url"
        THEN ScanPage(req[r].url, req[r].data, started, completed)
        ELSE Aggregate(ReplayFiles(NewDirFindings(req[r].targetDir, started),
                                   fs, req[r].targetDir, req[r].visited,
                                   req[r].unread, 1),
                       completed)

\* every finding of r's report names a file r's own walk yielded, or r's url
OwnFindings(r) ==
  LET own == IF req[r].kind = "url" THEN {req[r].url}
             ELSE {Relative(req[r].targetDir, req[r].visited[i]) :
                     i \in DOMAIN req[r].visited}
  IN  \A kind \in {"api_keys", "sensitive_files", "code_issues"} :
        \A i \in DOMAIN Report(r)[kind] : Report(r)[kind][i].file \in own

\* a turn of one handler leaves the other request as it was
OneRequestPerTurn ==
  \A r1, r2 \in Reqs : r1 # r2 => (req'[r1] = req[r1] \/ req'[r2] = req[r2])

\* C12: with two requests served at once, a turn of one handler at an await
\* (stat, readdir, readFile, GET) never changes the other request; each report
\* is the report computed from that request's own target, files and page; and
\* every regex of the shared catalog keeps lastIndex 0 across every scan.
C12_ConcurrentScansIndependent ==
  /\ [](\A r \in Reqs : Reported(r) => Report(r) = ReportAlone(r) /\ OwnFindings(r))
  /\ [](lastIndex = FreshCatalog)
  /\ [][OneRequestPerTurn]_vars

\* two directory scans of different targets, both reporting findings, the
\* second having arrived while the first was being served
C12_Witness ==
  /\ Reported("r1") /\ Reported("r2")
  /\ req["r1"].kind = "dir" /\ req["r2"].kind = "dir"
  /\ req["r1"].targetDir # req["r2"].targetDir
  /\ req["r2"].concurrent = {"r1"}
  /\ Report("r1").summary.total_issues >= 1
  /\ Report("r2").summary.total_issues >= 1

\* the five sensitive filenames
FiveSensitiveNames ==
  { <<".","e","n","v">>, <<"c","o","n","f","i","g",".","j","s","o","n">>, <<"s","e","t","t","i","n","g","s",".","j","s","o","n">>, <<"c","r","e","d","e","n","t","i","a","l","s",".","j","s","o","n">>, <<"s","e","c","r","e","t","s",".","j","s","o","n">> }

\* the SensitiveFileFindings of r's report for the file at relative path f
SensitiveFindingsFor(r, f) ==
  { i \in DOMAIN Report(r).sensitive_files : Report(r).sensitive_files[i].file = f }

\* The case of C13: a directory scan has returned a report; the listing
\* succeeded; below the target there is exactly one file, secrets.json, empty
\* and under no skipped directory.
C13_Case(r) ==
  /\ Reported(r) /\ req[r].kind = "dir"
  /\ req[r].unlisted = <<>>
  /\ \E p \in FilesBelow(fs, req[r].targetDir) :
       /\ FilesBelow(fs, req[r].targetDir) = {p}
       /\ Basename(p) = <<"s","e","c","r","e","t","s",".","j","s","o","n">>
       /\ fs[p].content = <<>>
       /\ p \in EligibleFiles(fs, req[r].targetDir)

\* C13: the report of a scan of a directory holding the single, empty file
\* secrets.json has exactly one SensitiveFileFinding, with line null, no
\* ApiKeyFinding, no CodeIssueFinding and risk_level MEDIUM; and in every
\* directory report a scanned file has one SensitiveFileFinding when its
\* basename, lower-cased, is one of the five sensitive filenames, and none
\* otherwise, and every SensitiveFileFinding is for a scanned file.
C13_SensitiveFilenames ==
  \A r \in Reqs :
    /\ C13_Case(r) =>
         /\ Len(Report(r).sensitive_files) = 1
         /\ Report(r).sensitive_files[1].line = Null
         /\ Report(r).api_keys = <<>>
         /\ Report(r).code_issues = <<>>
         /\ Report(r).summary.risk_level = "MEDIUM"
    /\ (Reported(r) /\ req[r].kind = "dir") =>
         /\ \A i \in DOMAIN req[r].visited :
              LET p == req[r].visited[i]
              IN  Cardinality(SensitiveFindingsFor(r, Relative(req[r].targetDir, p)))
                    = IF ToLowerCase(Basename(p)) \in FiveSensitiveNames THEN 1 ELSE 0
         /\ \A i \in DOMAIN Report(r).sensitive_files :
              \E j \in DOMAIN req[r].visited :
                Report(r).sensitive_files[i].file
                  = Relative(req[r].targetDir, req[r].visited[j])

\* the report on the directory holding only an empty secrets.json
C13_Witness == \E r \in Reqs : C13_Case(r)

\* the line of position pos of text: one more than the newlines before it
LineOf(text, pos) == 1 + Cardinality({ q \in 1..(pos - 1) : text[q] = "\n" })

\* the number of lines of text
NumLines(text) == LineOf(text, Len(text) + 1)

\* the lines of text that contain m as a substring
LinesContaining(text, m) ==
  { LineOf(text, q) : q \in { q \in 1..(Len(text) - Len(m) + 1) :
                                /\ SubSeq(text, q, q + Len(m) - 1) = m
                                /\ \A j \in DOMAIN m : m[j] # "\n" } }

\* the least number of a non-empty set of numbers
Least(S) == CHOOSE n \in S : \A m \in S : n <= m

\* line is what C14 says of a finding for regex re in text
C14_LineAsSpecified(text, re, line) ==
  LET first == Exec(re, text, 1)
      m == SubSeq(text, first.start, first.end - 1)
  IN  /\ line = IF LinesContaining(text, m) # {} THEN Least(LinesContaining(text, m))
                ELSE 1
      /\ line \in 1..NumLines(text)
      /\ line <= LineOf(text, first.start)

\* the text the code patterns of request r are matched against, for blob b
CodeText(r, b) ==
  IF req[r].kind = "url" THEN JoinLines(ScriptContents(req[r].data, 1)) ELSE b.text

BelowUnlisted(r, p) ==
  \E i \in DOMAIN req[r].unlisted :
    LET d == req[r].unlisted[i]
    IN  Len(p) > Len(d) /\ SubSeq(p, 1, Len(d)) = d

\* the eligible files of r's target that r's walk could list
ListedEligibleFiles(r) ==
  { p \in EligibleFiles(fs, req[r].targetDir) : ~BelowUnlisted(r, p) }

\* how many times event e is in r's trace
CountEvents(r, e) == Cardinality({ i \in DOMAIN req[r].trace : req[r].trace[i] = e })

\* C15: when the calls to the file system settle, every directory scan is
\* answered; the walk of a report has yielded every eligible file that lies
\* below no directory whose listing failed, each exactly once, and nothing
\* else (a failed listing drops that subtree only); total_files_scanned is
\* their number, the number of all eligible files when no listing failed; and
\* readFile was called once for each of them.
C15_WalkYieldsEachEligibleFileOnce ==
  /\ [](\A r \in Reqs :
          (Reported(r) /\ req[r].kind = "dir") =>
            /\ \A i, j \in DOMAIN req[r].visited :
                 req[r].visited[i] = req[r].visited[j] => i = j
            /\ Range(req[r].visited) = ListedEligibleFiles(r)
            /\ Report(r).summary.total_files_scanned
                 = Cardinality(ListedEligibleFiles(r))
            /\ req[r].unlisted = <<>> =>
                 Report(r).summary.total_files_scanned
                   = Cardinality(EligibleFiles(fs, req[r].targetDir))
            /\ CountEvents(r, "readFile") = Len(req[r].visited))
  /\ \A r \in Reqs : (req[r].kind = "dir") ~> (req[r].pc = "done")

\* a report of a walk in which the listing of a subdirectory holding an
\* eligible file failed and a sibling of that subdirectory was yielded later
C15_Witness ==
  \E r \in Reqs :
    /\ Reported(r) /\ req[r].kind = "dir"
    /\ \E p \in EligibleFiles(fs, req[r].targetDir) : BelowUnlisted(r, p)
    /\ req[r].targetDir \notin Range(req[r].unlisted)
    /\ \E i \in DOMAIN req[r].trace :
         /\ req[r].trace[i] = "readFile"
         /\ FirstEvent(r, "readdir failed") < i

\* the findings of list kind that a findings object holds for relative path f
FindingsFor(findings, kind, f) ==
  { i \in DOMAIN findings[kind] : findings[kind][i].file = f }

\* C16: in a directory scan the filename check comes before the read and does
\* not depend on it: while the read of a yielded file is awaited, its
\* SensitiveFileFinding, if its name is sensitive, is already recorded; and in
\* the report a file whose read failed has no ApiKeyFinding and no
\* CodeIssueFinding, and exactly one SensitiveFileFinding if its name is
\* sensitive (none otherwise), which total_issues and risk_level count.
C16_NameCheckBeforeRead ==
  \A r \in Reqs :
    req[r].kind = "dir" =>
      /\ req[r].pc = "readFile" =>
           LET f == Relative(req[r].targetDir, req[r].pending)
           IN  /\ Cardinality(FindingsFor(req[r].findings, "sensitive_files", f))
                    = IF ToLowerCase(Basename(req[r].pending)) \in FiveSensitiveNames
                        THEN 1 ELSE 0
               /\ FindingsFor(req[r].findings, "api_keys", f) = {}
               /\ FindingsFor(req[r].findings, "code_issues", f) = {}
      /\ Reported(r) =>
           /\ \A u \in DOMAIN req[r].unread :
                LET f == Relative(req[r].targetDir, req[r].unread[u])
                IN  /\ FindingsFor(Report(r), "api_keys", f) = {}
                    /\ FindingsFor(Report(r), "code_issues", f) = {}
                    /\ Cardinality(FindingsFor(Report(r), "sensitive_files", f))
                         = IF ToLowerCase(Basename(req[r].unread[u]))
                                \in FiveSensitiveNames
                             THEN 1 ELSE 0
           /\ Report(r).summary.total_issues
                = Len(Report(r).api_keys) + Len(Report(r).sensitive_files)
                    + Len(Report(r).code_issues)
           /\ Report(r).summary.risk_level
                = IF Report(r).summary.total_issues = 0 THEN "LOW"
                  ELSE IF Report(r).summary.total_issues <= 3 THEN "MEDIUM"
                  ELSE "HIGH"

\* the report of a scan whose only file, .ENV with two keys in it, could not
\* be read: one SensitiveFileFinding, nothing else, one issue, MEDIUM
C16_Witness ==
  \E r \in Reqs :
    /\ Reported(r) /\ req[r].kind = "dir"
    /\ \E u \in DOMAIN req[r].unread :
         /\ Basename(req[r].unread[u]) = <<".","E","N","V">>
         /\ Exec(PATTERNS[7].pattern, fs[req[r].unread[u]].content, 1).start # 0
    /\ Len(Report(r).sensitive_files) = 1
    /\ Report(r).api_keys = <<>> /\ Report(r).code_issues = <<>>
    /\ Report(r).summary.total_issues = 1
    /\ Report(r).summary.risk_level = "MEDIUM"

====
